---------------------------- MODULE Spec2Model ----------------------------
(***************************************************************************)
(* Model of backend/main.py: the progressive tax engine                    *)
(* (compute_progressive_tax), the amortization engine                      *)
(* (amortization_schedule, reached through loan_amortize) and the          *)
(* prepay-versus-invest comparator (prepay_vs_invest).                      *)
(*                                                                         *)
(* Numbers.  The program computes in binary floating point and rounds to   *)
(* decimals with round(x, 2) and round(x, 10).  The model computes with    *)
(* exact integers in fixed units:                                          *)
(*   - tax amounts are counted in eighths of a currency unit and rates in  *)
(*     quarters, so every amount, product and sum is a dyadic rational     *)
(*     that the program's floats hold exactly, and round(x, 2) is the      *)
(*     round-half-even of the exact value;                                 *)
(*   - loan amounts are counted in units of 10^-10 currency, the grid of   *)
(*     round(balance - principal_pay, 10); a cent is 10^8 units.  The      *)
(*     periodic rate rp is a whole number, so interest on a rounded        *)
(*     balance is a whole number of units, and the annuity payment is      *)
(*     kept as an exact mixed number w + num/den.  A decimal rounding of   *)
(*     a value exactly half way goes either way: which way the program     *)
(*     takes depends on the float's representation error.                  *)
(***************************************************************************)
EXTENDS Integers, Sequences, FiniteSets, TLC

VARIABLES
  pc,             \* position of the running request
  req,            \* the request (function arguments)
  slab_i,         \* index of the slab the tax loop is at
  remaining,      \* compute_progressive_tax: remaining
  prev_cap,       \* compute_progressive_tax: prev_cap
  tax,            \* compute_progressive_tax: tax (unrounded)
  breakdown,      \* compute_progressive_tax: breakdown
  n,              \* amortization_schedule: n
  payment,        \* payment (amortization_schedule, then prepay_vs_invest)
  balance,        \* balance
  total_interest, \* total_interest (unrounded)
  schedule,       \* schedule
  period,         \* loop counter: i of amortization_schedule, period of prepay_vs_invest
  base,           \* prepay_vs_invest: base, the dict amortization_schedule returned
  result          \* the value the operation returned

vars == << pc, req, slab_i, remaining, prev_cap, tax, breakdown, n, payment,
           balance, total_interest, schedule, period, base, result >>

taxVars == << slab_i, remaining, prev_cap, tax, breakdown >>
loanVars == << n, payment, balance, total_interest, schedule, period, base >>

(***************************************************************************)
(* Bounds of the checked instances.                                        *)
(***************************************************************************)
MaxSlabs == 3
MaxCap == 4
MaxIncome == 6

(***************************************************************************)
(* Arithmetic helpers.                                                     *)
(***************************************************************************)
Min(a, b) == IF b < a THEN b ELSE a
Max(a, b) == IF b > a THEN b ELSE a
Abs(a) == IF a < 0 THEN -a ELSE a

\* Python's round(): the nearest integer to num/den, a tie going to the even
\* one.  den > 0; \div and % floor, so num may be negative.
RoundHalfEven(num, den) ==
  LET q == num \div den
      r == num % den
  IN  IF 2 * r < den THEN q
      ELSE IF 2 * r > den THEN q + 1
      ELSE IF q % 2 = 0 THEN q ELSE q + 1

\* No value: the None of an absent "upto", and of variables not yet assigned.
None == -1

(***************************************************************************)
(* Tax engine.  Amounts in eighths of a currency unit, rates in quarters,  *)
(* band taxes (amount * rate) in thirty-seconds; rounded values in cents.  *)
(***************************************************************************)
AmountDen == 2^3
RateDen == 2^2
TaxDen == AmountDen * RateDen
CentsPerUnit == 10^2

\* float("inf"): above every finite amount of the model.
Inf == 2^20

\* round(band, 2), in cents.
RoundAmount2(band) == RoundHalfEven(band * CentsPerUnit, AmountDen)
\* round(band_tax, 2) and round(tax, 2), in cents.
RoundTax2(t) == RoundHalfEven(t * CentsPerUnit, TaxDen)

\* cap = upto if upto is not None else float("inf")
CapOf(slab) == IF slab.upto = None THEN Inf ELSE slab.upto

\* cap - prev_cap in floats: inf - x = inf, x - inf = -inf, inf - inf = nan.
\* min(nan, remaining) is nan and max(0.0, nan) is 0.0, as for -inf.
CapMinusPrev(cap, prev) ==
  IF prev = Inf THEN -Inf
  ELSE IF cap = Inf THEN Inf
  ELSE cap - prev

\* The band measured from 0 instead of from prev_cap.
BandBug(cap, prev, rem) == Max(0, Min(cap, rem))
\* band = max(0.0, min(cap - prev_cap, remaining))
Band(cap, prev, rem) == Max(0, Min(CapMinusPrev(cap, prev), rem))

\* The band tax assigned instead of accumulated.
TaxAccBug(t, band_tax) == band_tax
\* tax += band_tax
TaxAcc(t, band_tax) == t + band_tax

\* The slab tables of the model: at most MaxSlabs slabs, each with an upper
\* bound of 1..MaxCap eighths or none and a rate of 0, 1/4 or 1, the
\* present upper bounds non-decreasing.
SlabSet == [upto : (1..MaxCap) \cup {None}, rate : {0, 1, RateDen}]
NonDecreasing(s) ==
  \A i \in 1..Len(s) : \A j \in 1..Len(s) :
    (i < j /\ s[i].upto # None /\ s[j].upto # None) => s[i].upto <= s[j].upto
SlabTables ==
  { s \in UNION { [1..k -> SlabSet] : k \in 0..MaxSlabs } : NonDecreasing(s) }

NoLoan ==
  /\ n = None /\ payment = None /\ balance = None /\ total_interest = None
  /\ schedule = << >> /\ period = 0 /\ base = None

InitTax ==
  /\ pc = "tax_loop"
  /\ req \in [taxable_income : 0..MaxIncome, slabs : SlabTables]
  /\ slab_i = 1
  /\ remaining = req.taxable_income
  /\ prev_cap = 0
  /\ tax = 0
  /\ breakdown = << >>
  /\ NoLoan
  /\ result = None

\* One iteration of "for slab in slabs".
TaxSlab ==
  /\ pc = "tax_loop"
  /\ slab_i <= Len(req.slabs)
  /\ LET slab == req.slabs[slab_i]
         rate == slab.rate
         cap == CapOf(slab)
         band == Band(cap, prev_cap, remaining)
         band_tax == band * rate
     IN  /\ breakdown' = Append(breakdown,
                           [band_from |-> prev_cap,
                            band_to |-> IF cap # Inf THEN cap ELSE None,
                            taxable |-> RoundAmount2(band),
                            rate |-> rate,
                            tax |-> RoundTax2(band_tax)])
         /\ tax' = TaxAcc(tax, band_tax)
         /\ remaining' = remaining - band
         /\ prev_cap' = cap
         /\ slab_i' = slab_i + 1
         /\ pc' = IF remaining - band <= 0 THEN "tax_return" ELSE "tax_loop"
  /\ UNCHANGED << req, loanVars, result >>

\* The loop ran out of slabs, or broke: return.
TaxReturn ==
  /\ \/ pc = "tax_return"
     \/ pc = "tax_loop" /\ slab_i > Len(req.slabs)
  /\ result' = [tax_due |-> RoundTax2(tax), breakdown |-> breakdown]
  /\ pc' = "tax_done"
  /\ UNCHANGED << req, taxVars, loanVars >>

NextTax == TaxSlab \/ TaxReturn

SpecTax == InitTax /\ [][NextTax]_vars


(***************************************************************************)
(* compute_progressive_tax: the claims.                                    *)
(***************************************************************************)
RECURSIVE SumField(_, _)
SumField(seq, f) ==
  IF seq = << >> THEN 0 ELSE seq[1][f] + SumField(Tail(seq), f)

\* min(taxable_income, cap of the last slab processed), in eighths; no slab
\* processed leaves prev_cap = 0.
MinIncomeCap == Min(req.taxable_income, prev_cap)

\* The loop stopped at the first slab after which remaining <= 0: every
\* slab before the last processed one left income to tax, and the last one
\* either covered the income or was the last of the table.
StoppedAtFirstCover ==
  LET k == Len(result.breakdown)
  IN  /\ k <= Len(req.slabs)
      /\ \A j \in 1..(k - 1) : req.taxable_income > CapOf(req.slabs[j])
      /\ (1 <= k /\ k < Len(req.slabs)) => req.taxable_income <= CapOf(req.slabs[k])
      /\ (k = 0) => (req.slabs = << >>)

\* C1 as stated: the sum of the breakdown's taxable fields equals
\* min(taxable_income, last processed cap).  (cents * 8 = eighths * 100)
C1_SumTaxableEqualsMin ==
  pc = "tax_done" =>
    SumField(result.breakdown, "taxable") * AmountDen = MinIncomeCap * CentsPerUnit

\* C1 amended: the loop stops at the first slab that covers the income, and
\* the sum of the breakdown's taxable fields is within 0.005 per breakdown
\* entry of min(taxable_income, last processed cap).
C1_SumTaxableNearMin ==
  pc = "tax_done" =>
    /\ StoppedAtFirstCover
    /\ 2 * Abs(SumField(result.breakdown, "taxable") * AmountDen
               - MinIncomeCap * CentsPerUnit)
         <= AmountDen * Len(result.breakdown)

\* C1 witness: a table of three slabs cut short after two, the rounded sum
\* off the exact one.
C1_Witness ==
  /\ pc = "tax_done"
  /\ Len(req.slabs) = 3
  /\ Len(result.breakdown) = 2
  /\ result.breakdown[2].taxable > 0
  /\ SumField(result.breakdown, "taxable") * AmountDen # MinIncomeCap * CentsPerUnit

\* C2 as stated: tax_due >= 0 and tax_due equals the sum of the breakdown's
\* tax fields.
C2_TaxDueEqualsSum ==
  pc = "tax_done" =>
    /\ result.tax_due >= 0
    /\ result.tax_due = SumField(result.breakdown, "tax")

\* C2 amended: tax_due >= 0 and tax_due differs from the sum of the
\* breakdown's tax fields by at most 0.005 per breakdown entry plus 0.005
\* (each is a separate 2-decimal rounding of unrounded band taxes).
C2_TaxDueNearSum ==
  pc = "tax_done" =>
    /\ result.tax_due >= 0
    /\ 2 * Abs(result.tax_due - SumField(result.breakdown, "tax"))
         <= Len(result.breakdown) + 1

\* C2 witness: two taxed bands whose rounded taxes do not add up to tax_due.
C2_Witness ==
  /\ pc = "tax_done"
  /\ Len(result.breakdown) >= 2
  /\ result.breakdown[1].tax > 0
  /\ result.breakdown[2].tax > 0
  /\ result.tax_due # SumField(result.breakdown, "tax")

(***************************************************************************)
(* Loan arithmetic.  Amounts are whole numbers of units of 10^-10          *)
(* currency.  A mixed number [w, num, den] is w + num/den units, with      *)
(* 0 <= num < den: the value of a float that lies off the grid.  A money   *)
(* sum [c, u] is c cents and u units, 0 <= u < Cent: total_interest, which *)
(* outgrows one machine integer.                                           *)
(***************************************************************************)
Cent == 10^8
HalfCent == Cent \div 2
\* 0.0001, the paid-off threshold of prepay_vs_invest's loop.
PaidOff == 10^6
\* years is a float in LoanRequest: the model counts it in halves.
YearDen == 2
\* The largest integer of the model checker.
MaxInt == 2^30 + (2^30 - 1)

MaxRp == 3
MaxYears == 16
MaxPpy == 2
MaxPrepayYears == 2

MInt(x) == [w |-> x, num |-> 0, den |-> 1]
ZeroMoney == [c |-> 0, u |-> 0]
AddMoney(m, x) ==
  LET s == m.u + x IN [c |-> m.c + (s \div Cent), u |-> s % Cent]

\* A decimal rounding whose argument lies exactly half way is decided by the
\* binary representation error of the float, which the model does not
\* track: t (0 or 1) says whether that tie goes down or up.
TieSet == [{"balance", "payment", "principal", "interest", "remaining"} -> {0, 1}]

\* round(b - m, 10) for a balance b on the grid and a mixed number m.
Round10(b, m, t) ==
  IF m.num = 0 THEN b - m.w
  ELSE IF m.num < m.den - m.num THEN b - m.w
  ELSE IF m.num > m.den - m.num THEN b - m.w - 1
  ELSE b - m.w - t

\* round(m, 2) of a mixed number of units, in cents.
Round2(m, t) ==
  LET q == m.w \div Cent
      r == m.w % Cent
  IN  IF r < HalfCent THEN q
      ELSE IF r > HalfCent \/ m.num > 0 THEN q + 1
      ELSE q + t

\* round(x, 2) of a money sum, in cents.
Round2Money(m, t) ==
  IF m.u < HalfCent THEN m.c
  ELSE IF m.u > HalfCent THEN m.c + 1
  ELSE m.c + t

\* x * k as a money sum, for an amount x of units and a count k.
MulMoney(x, k) ==
  LET hi == (x \div Cent) * k
      lo == (x % Cent) * k
  IN  [c |-> hi + (lo \div Cent), u |-> lo % Cent]

\* cents - m as a money sum (interest_saved).
CentsMinusMoney(cents, m) ==
  IF m.u = 0 THEN [c |-> cents - m.c, u |-> 0]
  ELSE [c |-> cents - m.c - 1, u |-> Cent - m.u]

\* n = int(round(years * payments_per_year))
Periods(years, ppy) == RoundHalfEven(years * ppy, YearDen)

\* r = annual_rate_pct/100.0 ; rp = r / payments_per_year: a whole number
\* for the rates of the model.
RatePerPeriod(rq) == (rq.annual_rate_pct \div 100) \div rq.payments_per_year

\* (1+rp)**n, held at MaxInt once it passes it.
RECURSIVE PowSat(_, _)
PowSat(b, e) ==
  IF e = 0 THEN 1
  ELSE LET p == PowSat(b, e - 1)
       IN  IF p >= MaxInt \div b THEN MaxInt ELSE p * b

\* payment = principal * rp / (1 - (1+rp)**(-n)), n > 0.  With X = (1+rp)**n
\* this is principal*rp * X/(X-1) = principal*rp + principal*rp/(X-1), an
\* exact mixed number.  Where X is held at MaxInt the fraction, like the
\* true one, lies strictly between 0 and 1/2 (principal*rp < 2^30), so every
\* rounding and comparison of the payment comes out the same.
AnnuityPayment(principal, rp, periods) ==
  LET a == principal * rp
      d == PowSat(1 + rp, periods) - 1
  IN  [w |-> a + (a \div d), num |-> a % d, den |-> d]

\* The division by n dropped.
ZeroRatePaymentBug(principal, periods) == MInt(principal)
\* payment = principal / n if n>0 else principal
ZeroRatePayment(principal, periods) ==
  IF periods > 0
  THEN [w |-> principal \div periods, num |-> principal % periods, den |-> periods]
  ELSE MInt(principal)

\* principal_pay > balance, for a mixed number and a whole balance.
MGreater(m, b) == m.w > b \/ (m.w = b /\ m.num > 0)

LoanPrincipals == {1, 51 * 10^6, 10^8, 12 * 10^7, 15 * 10^7 + 2}
PrepayPrincipals == {499 * 10^5, 10^8, 24 * 10^7}
ExtraMonthly == {0, 12 * 10^5, 12 * 10^7}

NoTax ==
  /\ slab_i = 0 /\ remaining = None /\ prev_cap = None /\ tax = None
  /\ breakdown = << >>

LoanLocalsUnset ==
  /\ n = None /\ payment = None /\ balance = None /\ total_interest = None
  /\ schedule = << >> /\ period = 0 /\ base = None /\ result = None

\* A validated LoanRequest: principal > 0, annual_rate_pct >= 0, years > 0
\* (in halves), payments_per_year >= 1.
InitLoan ==
  /\ pc = "loan_amortize"
  /\ \E P \in LoanPrincipals, k \in 0..MaxRp, y \in 1..MaxYears, f \in 1..MaxPpy :
       req = [op |-> "amortize", principal |-> P, annual_rate_pct |-> 100 * f * k,
              years |-> y, payments_per_year |-> f]
  /\ NoTax
  /\ LoanLocalsUnset

\* loan_amortize, up to the call of amortization_schedule.
LoanAmortize ==
  /\ pc = "loan_amortize"
  /\ pc' = IF req.principal <= 0 \/ req.years <= 0 THEN "http_400" ELSE "amort_start"
  /\ UNCHANGED << req, taxVars, loanVars, result >>

\* amortization_schedule, up to the loop.
AmortStart ==
  /\ pc = "amort_start"
  /\ LET r == req.annual_rate_pct
         nn == Periods(req.years, req.payments_per_year)
     IN  /\ n' = nn
         /\ IF r # 0 /\ nn = 0
            THEN \* 1 - (1+rp)**(-0) is 0.0: ZeroDivisionError
                 /\ pc' = "fault"
                 /\ UNCHANGED << payment, balance, total_interest, schedule, period >>
            ELSE /\ payment' = IF r = 0
                               THEN ZeroRatePayment(req.principal, nn)
                               ELSE AnnuityPayment(req.principal, RatePerPeriod(req), nn)
                 /\ balance' = req.principal
                 /\ total_interest' = ZeroMoney
                 /\ schedule' = << >>
                 /\ period' = 0
                 /\ pc' = IF nn = 0 THEN "amort_return" ELSE "amort_loop"
  /\ UNCHANGED << req, taxVars, base, result >>

\* One iteration of "for i in range(1, n+1)".
AmortPeriod ==
  /\ pc = "amort_loop"
  /\ \E t \in TieSet :
       LET i == period + 1
           r == req.annual_rate_pct
           interest == IF r = 0 THEN 0 ELSE balance * RatePerPeriod(req)
           pay0 == IF r = 0 THEN payment
                   ELSE [payment EXCEPT !.w = payment.w - interest]
           clamp == MGreater(pay0, balance)
           principal_pay == IF clamp THEN MInt(balance) ELSE pay0
           pay1 == IF clamp THEN MInt(balance + interest) ELSE payment
           bal1 == Round10(balance, principal_pay, t["balance"])
       IN  /\ payment' = pay1
           /\ balance' = bal1
           /\ total_interest' = AddMoney(total_interest, interest)
           /\ schedule' = Append(schedule,
                [period |-> i,
                 payment |-> Round2(pay1, t["payment"]),
                 principal_paid |-> Round2(principal_pay, t["principal"]),
                 interest_paid |-> Round2(MInt(interest), t["interest"]),
                 remaining_balance |->
                   Round2(MInt(IF bal1 > 0 THEN bal1 ELSE 0), t["remaining"])])
           /\ period' = i
           /\ pc' = IF bal1 <= 0 \/ i = n THEN "amort_return" ELSE "amort_loop"
  /\ UNCHANGED << req, n, taxVars, base, result >>

\* The return of amortization_schedule, to loan_amortize (res) or to
\* prepay_vs_invest (base).
AmortReturn ==
  /\ pc = "amort_return"
  /\ \E t \in TieSet :
       base' = [periods |-> n,
                payment |-> Round2(payment, t["payment"]),
                total_interest |-> Round2Money(total_interest, t["interest"]),
                schedule |-> schedule]
  /\ pc' = IF req.op = "amortize" THEN "loan_return" ELSE "prepay_start"
  /\ UNCHANGED << req, taxVars, n, payment, balance, total_interest, schedule,
                  period, result >>

\* loan_amortize's return: the inputs echoed, with the schedule.
LoanReturn ==
  /\ pc = "loan_return"
  /\ result' = [principal |-> req.principal,
                annual_rate_pct |-> req.annual_rate_pct,
                years |-> req.years,
                payments_per_year |-> req.payments_per_year,
                periods |-> base.periods,
                payment |-> base.payment,
                total_interest |-> base.total_interest,
                schedule |-> base.schedule]
  /\ pc' = "done"
  /\ UNCHANGED << req, taxVars, loanVars >>

NextLoan == LoanAmortize \/ AmortStart \/ AmortPeriod \/ AmortReturn \/ LoanReturn

SpecLoan == InitLoan /\ [][NextLoan]_vars

(***************************************************************************)
(* prepay_vs_invest.                                                       *)
(***************************************************************************)
\* n_max = int(req.years * req.payments_per_year * 5)
NMax(rq) == (rq.years * rq.payments_per_year * 5) \div YearDen

\* scaled_extra = req.extra_monthly * (req.payments_per_year/12.0): a whole
\* number of units for the extras of the model.
ScaledExtra(rq) == (rq.extra_monthly * rq.payments_per_year) \div 12

\* The test made strict: a payment equal to the interest passes.
InsufficientBug(principal_paid) == principal_paid < 0
\* if principal_paid <= 0: raise HTTPException(status_code=400, ...)
Insufficient(principal_paid) == principal_paid <= 0

\* while balance > 0.0001 and period < n_max
LoopOn == balance > PaidOff /\ period < NMax(req)

\* A validated PrepayScenario: years is a whole number (an even number of
\* halves), extra_monthly >= 0, invest_rate_pct = 0.
InitPrepay ==
  /\ pc = "amort_start"
  /\ \E P \in PrepayPrincipals, k \in 0..MaxRp, y \in 1..MaxPrepayYears,
        f \in 1..MaxPpy, x \in ExtraMonthly :
       req = [op |-> "prepay", principal |-> P, annual_rate_pct |-> 100 * f * k,
              years |-> YearDen * y, payments_per_year |-> f, extra_monthly |-> x,
              invest_rate_pct |-> 0]
  /\ NoTax
  /\ LoanLocalsUnset

\* prepay_vs_invest from the return of the baseline to the loop.
PrepayStart ==
  /\ pc = "prepay_start"
  /\ payment' = MInt(base.payment * Cent + ScaledExtra(req))
  /\ schedule' = << >>
  /\ balance' = req.principal
  /\ total_interest' = ZeroMoney
  /\ period' = 0
  /\ pc' = "prepay_loop"
  /\ UNCHANGED << req, taxVars, n, base, result >>

\* One iteration of the while loop.
PrepayPeriod ==
  /\ pc = "prepay_loop"
  /\ LoopOn
  /\ \E t \in TieSet :
       LET interest == balance * RatePerPeriod(req)
           paid0 == payment.w - interest
           clamp == paid0 > balance
           principal_paid == IF clamp THEN balance ELSE paid0
           pay1 == IF clamp THEN MInt(principal_paid + interest) ELSE payment
       IN  /\ period' = period + 1
           /\ IF Insufficient(paid0)
              THEN /\ pc' = "http_400"
                   /\ UNCHANGED << payment, balance, total_interest, schedule >>
              ELSE /\ payment' = pay1
                   /\ balance' = balance - principal_paid
                   /\ total_interest' = AddMoney(total_interest, interest)
                   /\ schedule' = Append(schedule,
                        [period |-> period + 1,
                         payment |-> Round2(pay1, t["payment"]),
                         principal_paid |-> Round2(MInt(principal_paid), t["principal"]),
                         interest_paid |-> Round2(MInt(interest), t["interest"]),
                         remaining_balance |->
                           Round2(MInt(Max(balance - principal_paid, 0)), t["remaining"])])
                   /\ pc' = "prepay_loop"
  /\ UNCHANGED << req, taxVars, n, base, result >>

\* The loop is over: the derived figures and the response.  The future value
\* of the extra is the zero-rate branch, extra_monthly * months; tenths for
\* payoff_months_equivalent, cents for the rest.
PrepayReturn ==
  /\ pc = "prepay_loop"
  /\ ~LoopOn
  /\ \E t \in TieSet :
       LET months == (req.years * 12) \div YearDen
           interest_saved == CentsMinusMoney(base.total_interest, total_interest)
       IN  result' =
             [base |-> base,
              with_extra |->
                [payment |-> Round2(payment, t["payment"]),
                 payoff_periods |-> period,
                 total_interest |-> Round2Money(total_interest, t["interest"]),
                 schedule_sample |-> SubSeq(schedule, 1, Min(6, Len(schedule)))],
              payoff_months_equivalent |->
                RoundHalfEven(period * 12 * 10, req.payments_per_year),
              interest_saved |-> Round2Money(interest_saved, t["balance"]),
              invest_future_value_of_extra |->
                Round2Money(MulMoney(req.extra_monthly, months), t["remaining"])]
  /\ pc' = "prepay_done"
  /\ UNCHANGED << req, taxVars, loanVars >>

NextPrepay ==
  AmortStart \/ AmortPeriod \/ AmortReturn \/ PrepayStart \/ PrepayPeriod \/ PrepayReturn

SpecPrepay == InitPrepay /\ [][NextPrepay]_vars

(***************************************************************************)
(* amortization_schedule and loan_amortize: the claims (under SpecLoan).   *)
(***************************************************************************)
\* C3: in every schedule returned, remaining_balance is non-negative in
\* every entry, non-increasing from each period to the next, and 0 in the
\* last entry.
C3_BalanceRunsDownToZero ==
  pc = "done" =>
    LET s == result.schedule
    IN  /\ \A i \in 1..Len(s) : s[i].remaining_balance >= 0
        /\ \A i \in 1..(Len(s) - 1) :
             s[i + 1].remaining_balance <= s[i].remaining_balance
        /\ s # << >> => s[Len(s)].remaining_balance = 0

\* C4: the principal_paid fields of the returned schedule sum to the
\* original principal within 0.01.  (d cents and u units apart)
C4_PrincipalPaidSumsToPrincipal ==
  pc = "done" =>
    LET d == SumField(result.schedule, "principal_paid") - (req.principal \div Cent)
        u == req.principal % Cent
    IN  /\ Abs(d) <= 2
        /\ Abs(d * Cent - u) <= Cent

\* C5 as stated: with annual_rate_pct = 0 the payment returned is
\* principal / n and total_interest is 0.
C5_PaymentIsPrincipalOverN ==
  (pc = "done" /\ req.annual_rate_pct = 0) =>
    /\ result.total_interest = 0
    /\ n > 0
    /\ req.principal % n = 0
    /\ result.payment * Cent = req.principal \div n

\* C5 amended: with annual_rate_pct = 0, total_interest is 0 and the payment
\* returned is principal / n rounded to 2 decimals up to the last period's
\* clamp: within 0.005 + n * 10^-10 of principal / n when n >= 1, and
\* principal rounded to 2 decimals when n = 0.
C5_PaymentIsRoundedPrincipalOverN ==
  (pc = "done" /\ req.annual_rate_pct = 0) =>
    /\ result.total_interest = 0
    /\ IF n = 0
       THEN Abs(result.payment * Cent - req.principal) <= HalfCent
       ELSE Abs(result.payment * Cent - (req.principal \div n)) <= HalfCent + n

\* C5 witness: a zero-rate loan over several periods whose payment does not
\* divide out to whole cents.
C5_Witness ==
  /\ pc = "done"
  /\ req.annual_rate_pct = 0
  /\ n >= 3
  /\ Len(result.schedule) = n
  /\ result.payment * Cent # req.principal \div n

\* C9: a request that satisfies the Loan Parameters constraints never makes
\* the engine fault; the only failure is the client error raised before it.
C9_EngineNeverFaults == pc # "fault"

(***************************************************************************)
(* prepay_vs_invest: the claims (under SpecPrepay).                        *)
(***************************************************************************)
\* C6: a returned result has with_extra.payoff_periods <= base.periods.
C6_PayoffWithinBasePeriods ==
  pc = "prepay_done" => result.with_extra.payoff_periods <= result.base.periods

\* C7: with extra_monthly > 0, a returned result has interest_saved >= 0.
C7_InterestSavedNonNegative ==
  (pc = "prepay_done" /\ req.extra_monthly > 0) => result.interest_saved >= 0

\* C8: a period whose payment does not exceed the interest on the current
\* balance ends the operation there with the client error, no result
\* returned and no further period simulated.
C8_InsufficientPaymentFailsThere ==
  [][ (pc = "prepay_loop" /\ LoopOn
         /\ payment.w - balance * RatePerPeriod(req) <= 0)
      => (pc' = "http_400" /\ result' = None /\ period' = period + 1
            /\ balance' = balance /\ schedule' = schedule) ]_vars

\* C8 witness: the error raised in the first period of a loan that bears
\* interest, nothing returned.
C8_Witness ==
  /\ pc = "http_400"
  /\ req.annual_rate_pct > 0
  /\ period = 1
  /\ payment.w > 0
  /\ result = None

\* C10: a returned result means the loan was paid off: the loop did not end
\* at the safety cap with balance outstanding.
C10_ReturnedMeansPaidOff ==
  pc = "prepay_done" => balance <= PaidOff

=============================================================================
